---- MODULE Spec2Model ----
(***************************************************************************)
(* Model of sqlalchemy_cloudflare_d1/connection.py: the result wrapper     *)
(* CloudflareD1Result (a row cursor over a materialized row list) and the  *)
(* connection CloudflareD1Connection (a channel to the D1 REST API).       *)
(*                                                                         *)
(* CursorSpec drives one CloudflareD1Result through fetchone, fetchmany,   *)
(* fetchall and iteration.  ChannelSpec drives one CloudflareD1Connection  *)
(* through close, execute, execute_many and the transaction calls.         *)
(***************************************************************************)
EXTENDS Integers, Sequences, FiniteSets, TLC

\* ------------------------------------------------------------------ bounds
MaxRows == 3       \* longest row list a cursor is constructed over
MaxCalls == 3      \* fetch calls made on one cursor
MaxSize == 3       \* largest size argument of fetchmany
MinSizeMag == 2    \* fetchmany sizes go down to -MinSizeMag
MaxPosts == 3      \* requests posted over one connection's lifetime
MaxSets == 2       \* longest parameters_list passed to execute_many
MaxCloseCalls == 2 \* close() calls made on one connection

\* ------------------------------------------------------------- Python values
Min(a, b) == IF a < b THEN a ELSE b
Max(a, b) == IF a > b THEN a ELSE b

\* A row is a dict; two distinct rows are enough to tell order and identity.
Row == {[id |-> 1], [id |-> 2]}

RECURSIVE SeqsUpTo(_, _)
SeqsUpTo(S, n) ==
    IF n = 0 THEN {<<>>}
    ELSE LET shorter == SeqsUpTo(S, n - 1)
         IN  shorter \cup {Append(s, x) : s \in {t \in shorter : Len(t) = n - 1}, x \in S}

RowLists == SeqsUpTo(Row, MaxRows)

\* Python's None, as a size argument.
None == [none |-> TRUE]
IntSize(n) == [none |-> FALSE, int |-> n]
Sizes == {None} \cup {IntSize(n) : n \in (0 - MinSizeMag)..MaxSize}

\* s[start:stop] of a Python list: negative bounds count from the end, and
\* both bounds are clamped to 0..len(s).
PyClamp(i, n) == IF i < 0 THEN Max(i + n, 0) ELSE Min(i, n)
PySlice(s, start, stop) ==
    LET lo == PyClamp(start, Len(s))
        hi == PyClamp(stop, Len(s))
    IN  IF lo < hi THEN SubSeq(s, lo + 1, hi) ELSE <<>>

\* s[start:] of a Python list.
PySliceFrom(s, start) == PySlice(s, start, Len(s))

\* s[i] of a Python list: a negative i counts from the end; out of range
\* raises IndexError.
PyInRange(s, i) == (0 - Len(s)) <= i /\ i < Len(s)
PyItem(s, i) == IF i < 0 THEN s[i + Len(s) + 1] ELSE s[i + 1]

\* ------------------------------------------------------ CloudflareD1Result
VARIABLES
    results,     \* self.results: the row list, never reassigned
    meta,        \* self.meta
    success,     \* self.success
    _index,      \* self._index: the cursor position
    call,        \* the most recent fetch call: its name and size argument
    ret,         \* what that call returned (or raised)
    ncalls,      \* number of fetch calls made on this cursor
    delivered,   \* all rows returned by fetch calls so far, concatenated
    posOnly,     \* every call so far was fetchmany(k) with an integer k > 0
    sumK,        \* sum of the integer sizes passed to fetchmany so far
    it,          \* the list iterator made by the latest __iter__, if any
    yielded      \* rows that iterator has produced so far

cursorVars == <<results, meta, success, _index, call, ret, ncalls, delivered,
                posOnly, sumK, it, yielded>>

\* The connection's state (CloudflareD1Connection, below).
VARIABLES
    _closed,          \* self._closed
    _in_transaction,  \* self._in_transaction
    client,           \* self.client, the httpx.Client: "open" or "closed"
    closes,           \* number of self.client.close() calls made
    closeCalls,       \* number of close() calls made on the connection
    posts,            \* number of self.client.post() calls made
    args,             \* arguments of the most recent call, and what the transport
                      \* answered to each request it posted
    sent,             \* payloads posted by the most recent call, in order
    outcome           \* the most recent call on the connection and its result

channelVars == <<_closed, _in_transaction, client, closes, closeCalls, posts, args,
                 sent, outcome>>
vars == <<cursorVars, channelVars>>

\* Metadata dicts: keys are optional.
EmptyMeta == [k \in {} |-> 0]
Metas == {EmptyMeta, [changes |-> 1], [changes |-> 1, last_row_id |-> 1]}

\* CloudflareD1Result.__init__
NewResult(rs, m, ok) == [results |-> rs, meta |-> m, success |-> ok, _index |-> 0]

\* The rowcount and lastrowid properties, lines 196-204.
rowcount(c) == IF "changes" \in DOMAIN c.meta THEN c.meta.changes ELSE Len(c.results)
lastrowid(c) ==
    IF "last_row_id" \in DOMAIN c.meta THEN IntSize(c.meta.last_row_id) ELSE None

\* Return values of the fetch calls.
RetRow(r) == [kind |-> "row", rows |-> <<r>>]
RetNone == [kind |-> "None", rows |-> <<>>]
RetList(rs) == [kind |-> "list", rows |-> rs]
RetRaise(e) == [kind |-> e, rows |-> <<>>]
NoCall == [name |-> "none", size |-> None]
NoIter == [state |-> "none", src |-> <<>>, pos |-> 0]

\* Bookkeeping shared by the fetch calls: the call made, its outcome and the
\* running history.  Not program state.
Record(name, size, r) ==
    /\ call' = [name |-> name, size |-> size]
    /\ ret' = r
    /\ ncalls' = ncalls + 1
    /\ delivered' = delivered \o r.rows
    /\ posOnly' = (posOnly /\ name = "fetchmany" /\ ~size.none /\ size.int > 0)
    /\ sumK' = IF name = "fetchmany" /\ ~size.none THEN sumK + size.int ELSE sumK

\* fetchone: the guard of line 165 and the subscript of line 166.
FetchoneHasRow(rs, idx) == idx < Len(rs)

fetchone ==
    /\ ncalls < MaxCalls
    /\ IF FetchoneHasRow(results, _index)
       THEN IF PyInRange(results, _index)
            THEN /\ _index' = _index + 1
                 /\ Record("fetchone", None, RetRow(PyItem(results, _index)))
            ELSE \* results[self._index] raises before the increment
                 /\ _index' = _index
                 /\ Record("fetchone", None, RetRaise("IndexError"))
       ELSE /\ _index' = _index
            /\ Record("fetchone", None, RetNone)
    /\ UNCHANGED <<results, meta, success, it, yielded>>
    /\ UNCHANGED channelVars

\* fetchmany: the default of line 174 and the end of the slice, line 177.
FetchmanyDefault(rs, idx) == Len(rs) - idx
\* (a variant that forgets where the slice starts)
FetchmanyEndNoStart(start, size, n) == Min(size, n)
FetchmanyEnd(start, size, n) == Min(start + size, n)

fetchmany(size) ==
    /\ ncalls < MaxCalls
    /\ LET sz == IF size.none THEN FetchmanyDefault(results, _index) ELSE size.int
           start == _index
           end == FetchmanyEnd(start, sz, Len(results))
           rows == PySlice(results, start, end)
       IN  /\ _index' = end
           /\ Record("fetchmany", size, RetList(rows))
    /\ UNCHANGED <<results, meta, success, it, yielded>>
    /\ UNCHANGED channelVars

\* fetchall: the slice of line 184 and the new position of line 185.
FetchallRows(rs, idx) == PySliceFrom(rs, idx)

fetchall ==
    /\ ncalls < MaxCalls
    /\ _index' = Len(results)
    /\ Record("fetchall", None, RetList(FetchallRows(results, _index)))
    /\ UNCHANGED <<results, meta, success, it, yielded>>
    /\ UNCHANGED channelVars

\* __iter__ returns iter(self.results): a new list iterator over the row list.
\* (a variant that iterates over the rows not yet fetched)
IterSourceRemaining(rs, idx) == PySliceFrom(rs, idx)
IterSource(rs, idx) == rs

iter ==
    /\ it' = [state |-> "live", src |-> IterSource(results, _index), pos |-> 0]
    /\ yielded' = <<>>
    /\ UNCHANGED <<results, meta, success, _index, call, ret, ncalls, delivered,
                   posOnly, sumK>>
    /\ UNCHANGED channelVars

\* next() on that iterator: the next element, or StopIteration at the end.
iterNext ==
    /\ it.state = "live"
    /\ IF it.pos < Len(it.src)
       THEN /\ yielded' = Append(yielded, it.src[it.pos + 1])
            /\ it' = [it EXCEPT !.pos = it.pos + 1]
       ELSE /\ yielded' = yielded
            /\ it' = [it EXCEPT !.state = "done"]
    /\ UNCHANGED <<results, meta, success, _index, call, ret, ncalls, delivered,
                   posOnly, sumK>>
    /\ UNCHANGED channelVars

\* __getitem__, lines 192-194: the subscript it applies to the row list.
\* (a variant that counts the index from the cursor position)
GetitemFromPosition(idx, index) == idx + index
GetitemIndex(idx, index) == index

Indexes == (0 - MaxRows - 1)..(MaxRows + 1)

getitem(index) ==
    /\ call' = [name |-> "getitem", size |-> IntSize(index)]
    /\ ret' = LET i == GetitemIndex(_index, index)
              IN  IF PyInRange(results, i) THEN RetRow(PyItem(results, i))
                  ELSE RetRaise("IndexError")
    /\ UNCHANGED <<results, meta, success, _index, ncalls, delivered, posOnly, sumK,
                   it, yielded>>
    /\ UNCHANGED channelVars

\* -------------------------------------------------- CloudflareD1Connection
\* dict.get(key, default)
Get(d, k, default) == IF k \in DOMAIN d THEN d[k] ELSE default
EmptyDict == [k \in {} |-> 0]

\* Results of calls: a returned Python value, or a raised exception.
Returned(op, v) == [op |-> op, raised |-> FALSE, value |-> v]
Raised(op, e) == [op |-> op, raised |-> TRUE, exc |-> e]
RuntimeError(msg, detail) == [type |-> "RuntimeError", msg |-> msg, detail |-> detail]
NoDetail == [none |-> TRUE]
NoArgs == [none |-> TRUE]

\* (a variant that always sends "params", as an empty list when there are none)
PayloadAlwaysParams(query, parameters) ==
    [sql |-> query, params |-> IF parameters.none THEN <<>> ELSE parameters.seq]

\* json= payload of execute, lines 67-70: "params" only for truthy parameters.
Payload(query, parameters) ==
    IF ~parameters.none /\ Len(parameters.seq) > 0
    THEN [sql |-> query, params |-> parameters.seq]
    ELSE [sql |-> query]

\* (a variant that reports the last entry of errors)
EnvelopeErrorLast(data) ==
    LET errors == Get(data, "errors", <<>>)
    IN  IF Len(errors) > 0
        THEN RuntimeError("D1 API error: ",
                          [str |-> Get(errors[Len(errors)], "message", "Unknown error")])
        ELSE RuntimeError("D1 API request failed", NoDetail)

\* Lines 80-86: the exception for an envelope whose success is false or absent.
EnvelopeError(data) ==
    LET errors == Get(data, "errors", <<>>)
    IN  IF Len(errors) > 0
        THEN RuntimeError("D1 API error: ", [str |-> Get(errors[1], "message", "Unknown error")])
        ELSE RuntimeError("D1 API request failed", NoDetail)

\* (a variant that takes the last per-statement block)
EnvelopeResultLast(data) ==
    LET result_data == Get(data, "result", <<>>)
    IN  IF Len(result_data) > 0
        THEN LET query_result == result_data[Len(result_data)]
             IN  NewResult(Get(query_result, "results", <<>>),
                           Get(query_result, "meta", EmptyMeta),
                           Get(query_result, "success", TRUE))
        ELSE NewResult(<<>>, EmptyMeta, TRUE)

\* Lines 89-98: the result object built from a successful envelope.
EnvelopeResult(data) ==
    LET result_data == Get(data, "result", <<>>)
    IN  IF Len(result_data) > 0
        THEN LET query_result == result_data[1]
             IN  NewResult(Get(query_result, "results", <<>>),
                           Get(query_result, "meta", EmptyMeta),
                           Get(query_result, "success", TRUE))
        ELSE NewResult(<<>>, EmptyMeta, TRUE)

\* (a variant that reads the body before it looks at the status)
HandleResponseBodyFirst(resp) ==
    IF resp.kind = "RequestError"
    THEN [raised |-> TRUE,
          exc |-> RuntimeError("HTTP request failed: ", [cause |-> "RequestError"])]
    ELSE IF ~resp.body.json
    THEN [raised |-> TRUE,
          exc |-> [type |-> "JSONDecodeError", msg |-> "", detail |-> NoDetail]]
    ELSE IF ~Get(resp.body.data, "success", FALSE)
    THEN [raised |-> TRUE, exc |-> EnvelopeError(resp.body.data)]
    ELSE IF resp.status < 200 \/ resp.status >= 300
    THEN [raised |-> TRUE,
          exc |-> RuntimeError("HTTP error ", [status |-> resp.status, text |-> resp.body])]
    ELSE [raised |-> FALSE, cursor |-> EnvelopeResult(resp.body.data)]

\* Lines 72-105, after the request was posted: what execute makes of the
\* transport's answer.
HandleResponse(resp) ==
    IF resp.kind = "RequestError"
    THEN [raised |-> TRUE,
          exc |-> RuntimeError("HTTP request failed: ", [cause |-> "RequestError"])]
    ELSE IF resp.status < 200 \/ resp.status >= 300
    THEN [raised |-> TRUE,
          exc |-> RuntimeError("HTTP error ", [status |-> resp.status, text |-> resp.body])]
    ELSE IF ~resp.body.json
    THEN \* response.json() raises; no except clause catches it
         [raised |-> TRUE,
          exc |-> [type |-> "JSONDecodeError", msg |-> "", detail |-> NoDetail]]
    ELSE IF ~Get(resp.body.data, "success", FALSE)
    THEN [raised |-> TRUE, exc |-> EnvelopeError(resp.body.data)]
    ELSE [raised |-> FALSE, cursor |-> EnvelopeResult(resp.body.data)]

\* (a variant that posts the request again when the transport gave no answer)
ExecuteCallRetry(closed, query, parameters, resp) ==
    IF closed
    THEN [sent |-> <<>>, raised |-> TRUE,
          exc |-> RuntimeError("Connection is closed", NoDetail)]
    ELSE [sent |-> IF resp.kind = "RequestError"
                   THEN <<Payload(query, parameters), Payload(query, parameters)>>
                   ELSE <<Payload(query, parameters)>>] @@ HandleResponse(resp)

\* (a variant without the check of line 63)
ExecuteCallUnchecked(closed, query, parameters, resp) ==
    [sent |-> <<Payload(query, parameters)>>] @@ HandleResponse(resp)

\* One run of execute (lines 63-105) on a connection whose _closed is
\* `closed`: the payloads it posts and how it ends.
ExecuteCall(closed, query, parameters, resp) ==
    IF closed
    THEN [sent |-> <<>>, raised |-> TRUE,
          exc |-> RuntimeError("Connection is closed", NoDetail)]
    ELSE [sent |-> <<Payload(query, parameters)>>] @@ HandleResponse(resp)

\* (a variant that swallows a failed call and goes on to the next one)
RECURSIVE ExecuteManyKeepGoing(_, _, _, _, _, _)
ExecuteManyKeepGoing(closed, query, parameters_list, resps, i, acc) ==
    IF i > Len(parameters_list)
    THEN [sent |-> acc.sent, raised |-> FALSE, results |-> acc.results]
    ELSE LET r == ExecuteCall(closed, query, parameters_list[i], resps[i])
         IN  ExecuteManyKeepGoing(closed, query, parameters_list, resps, i + 1,
                                  [sent |-> acc.sent \o r.sent,
                                   results |-> IF r.raised THEN acc.results
                                               ELSE Append(acc.results, r.cursor)])

\* The loop of execute_many (lines 119-122) from the i-th parameter set on:
\* acc holds the payloads posted and the results appended so far.
RECURSIVE ExecuteManyFrom(_, _, _, _, _, _)
ExecuteManyFrom(closed, query, parameters_list, resps, i, acc) ==
    IF i > Len(parameters_list)
    THEN [sent |-> acc.sent, raised |-> FALSE, results |-> acc.results]
    ELSE LET r == ExecuteCall(closed, query, parameters_list[i], resps[i])
         IN  IF r.raised
             THEN [sent |-> acc.sent \o r.sent, raised |-> TRUE, exc |-> r.exc,
                   results |-> acc.results]
             ELSE ExecuteManyFrom(closed, query, parameters_list, resps, i + 1,
                                  [sent |-> acc.sent \o r.sent,
                                   results |-> Append(acc.results, r.cursor)])

\* ----------------------------------------------------------------- inputs
Queries == {"SELECT ?"}
NoParams == [none |-> TRUE]
Params(ps) == [none |-> FALSE, seq |-> ps]
Parameters == {NoParams, Params(<<>>), Params(<<1, 2>>), Params(<<2, 1>>)}

\* Per-statement result blocks of an envelope; every key is optional.
BlockRows == {<<>>, <<[id |-> 1]>>, <<[id |-> 2], [id |-> 1]>>}
Blocks ==
    {[results |-> <<[id |-> 2], [id |-> 1]>>, meta |-> m] : m \in Metas}
    \cup {[results |-> rs, meta |-> EmptyMeta, success |-> b] :
             rs \in BlockRows \ {<<[id |-> 2], [id |-> 1]>>}, b \in BOOLEAN}
    \cup {EmptyDict, [meta |-> [changes |-> 1]], [results |-> <<[id |-> 1]>>]}

Messages == <<[message |-> "syntax error"], [message |-> "no such table"], [code |-> 7500]>>
Envelopes ==
    {EmptyDict, [success |-> FALSE], [success |-> TRUE], [errors |-> <<Messages[1]>>]}
    \cup {[success |-> FALSE, errors |-> es] :
             es \in {<<>>, <<Messages[1]>>, <<Messages[1], Messages[2]>>,
                     <<Messages[2], Messages[1]>>, <<Messages[3]>>}}
    \cup {[success |-> TRUE, result |-> <<>>],
          [success |-> TRUE, result |-> <<>>, errors |-> <<Messages[1]>>]}
    \cup {[success |-> TRUE, result |-> <<b>>] : b \in Blocks}
    \cup {[success |-> TRUE, result |-> <<b, [results |-> <<[id |-> 2]>>, meta |-> EmptyMeta]>>] :
             b \in {EmptyDict, [results |-> <<[id |-> 1]>>, meta |-> [changes |-> 1]]}}

\* What the transport can answer to one post: no response at all, or a
\* response with a status and a body that is JSON or not.
Bodies == {[json |-> FALSE]} \cup {[json |-> TRUE, data |-> e] : e \in Envelopes}
ErrorBodies ==
    {[json |-> FALSE],
     [json |-> TRUE, data |-> [success |-> FALSE, errors |-> <<Messages[1]>>]],
     [json |-> TRUE, data |-> [success |-> TRUE, result |-> <<[results |-> <<[id |-> 1]>>]>>]]}
Responses ==
    {[kind |-> "RequestError"]}
    \cup {[kind |-> "response", status |-> 200, body |-> b] : b \in Bodies}
    \cup {[kind |-> "response", status |-> st, body |-> b] : st \in {404, 500}, b \in ErrorBodies}

\* The smaller input sets of execute_many.
ManyParameters == {Params(<<1>>), Params(<<2>>)}
ManyResponses ==
    {[kind |-> "RequestError"],
     [kind |-> "response", status |-> 200,
      body |-> [json |-> TRUE, data |-> [success |-> FALSE, errors |-> <<Messages[1]>>]]],
     [kind |-> "response", status |-> 200,
      body |-> [json |-> TRUE,
                data |-> [success |-> TRUE,
                          result |-> <<[results |-> <<[id |-> 1]>>, meta |-> [changes |-> 1]]>>]]]}

ManyParameterLists == SeqsUpTo(ManyParameters, MaxSets)
ManyResponseLists == SeqsUpTo(ManyResponses, MaxSets)

\* The transport answers only the requests that are posted: in a list of
\* answers, one that makes execute raise is the last one asked for, and the
\* places after it repeat it.
AnswersAsked(resps) ==
    \A i \in 1..(Len(resps) - 1) : HandleResponse(resps[i]).raised => resps[i + 1] = resps[i]
ManyInputs ==
    {in \in ManyParameterLists \X ManyResponseLists :
        Len(in[2]) = Len(in[1]) /\ AnswersAsked(in[2])}

\* ---------------------------------------------------------------- actions
\* (a variant without the check of line 42)
closeUnguarded ==
    /\ closeCalls < MaxCloseCalls
    /\ closeCalls' = closeCalls + 1
    /\ client' = "closed"
    /\ closes' = closes + 1
    /\ _closed' = TRUE
    /\ args' = NoArgs
    /\ sent' = <<>>
    /\ outcome' = Returned("close", None)
    /\ UNCHANGED <<_in_transaction, posts>>
    /\ UNCHANGED cursorVars

\* close, lines 40-44
close ==
    /\ closeCalls < MaxCloseCalls
    /\ closeCalls' = closeCalls + 1
    /\ IF ~_closed
       THEN /\ client' = "closed"
            /\ closes' = closes + 1
            /\ _closed' = TRUE
       ELSE UNCHANGED <<client, closes, _closed>>
    /\ args' = NoArgs
    /\ sent' = <<>>
    /\ outcome' = Returned("close", None)
    /\ UNCHANGED <<_in_transaction, posts>>
    /\ UNCHANGED cursorVars

\* the closed property, lines 46-49
closed ==
    /\ args' = NoArgs
    /\ sent' = <<>>
    /\ outcome' = Returned("closed", [bool |-> _closed])
    /\ UNCHANGED <<_closed, _in_transaction, client, closes, closeCalls, posts>>
    /\ UNCHANGED cursorVars

\* (a variant that closes the connection when the call fails)
executeClosesOnFailure(query, parameters, resp) ==
    LET r == ExecuteCall(_closed, query, parameters, resp)
    IN  /\ posts + Len(r.sent) <= MaxPosts
        /\ posts' = posts + Len(r.sent)
        /\ args' = [query |-> query, parameters |-> parameters, resp |-> resp]
        /\ sent' = r.sent
        /\ outcome' = IF r.raised THEN Raised("execute", r.exc)
                      ELSE Returned("execute", [cursor |-> r.cursor])
        /\ _closed' = (_closed \/ r.raised)
        /\ client' = IF r.raised THEN "closed" ELSE client
        /\ UNCHANGED <<_in_transaction, closes, closeCalls>>
        /\ UNCHANGED cursorVars

\* execute, lines 51-105
execute(query, parameters, resp) ==
    LET r == ExecuteCall(_closed, query, parameters, resp)
    IN  /\ posts + Len(r.sent) <= MaxPosts
        /\ posts' = posts + Len(r.sent)
        /\ args' = [query |-> query, parameters |-> parameters, resp |-> resp]
        /\ sent' = r.sent
        /\ outcome' = IF r.raised THEN Raised("execute", r.exc)
                      ELSE Returned("execute", [cursor |-> r.cursor])
        /\ UNCHANGED <<_closed, _in_transaction, client, closes, closeCalls>>
        /\ UNCHANGED cursorVars

\* execute_many, lines 107-122
execute_many(query, parameters_list, resps) ==
    LET r == ExecuteManyFrom(_closed, query, parameters_list, resps, 1,
                             [sent |-> <<>>, results |-> <<>>])
    IN  /\ posts + Len(r.sent) <= MaxPosts
        /\ posts' = posts + Len(r.sent)
        /\ args' = [query |-> query, parameters_list |-> parameters_list, resps |-> resps]
        /\ sent' = r.sent
        /\ outcome' = IF r.raised THEN Raised("execute_many", r.exc) @@ [produced |-> r.results]
                      ELSE Returned("execute_many", [list |-> r.results])
        /\ UNCHANGED <<_closed, _in_transaction, client, closes, closeCalls>>
        /\ UNCHANGED cursorVars

\* (a variant that sends BEGIN to the server)
beginTransactionRemote ==
    /\ posts < MaxPosts
    /\ _in_transaction' = TRUE
    /\ args' = NoArgs
    /\ posts' = posts + 1
    /\ sent' = <<[sql |-> "BEGIN"]>>
    /\ outcome' = Returned("begin_transaction", None)
    /\ UNCHANGED <<_closed, client, closes, closeCalls>>
    /\ UNCHANGED cursorVars

\* begin_transaction, lines 124-128
begin_transaction ==
    /\ _in_transaction' = TRUE
    /\ args' = NoArgs
    /\ sent' = <<>>
    /\ outcome' = Returned("begin_transaction", None)
    /\ UNCHANGED <<_closed, client, closes, closeCalls, posts>>
    /\ UNCHANGED cursorVars

\* commit_transaction, lines 130-132
commit_transaction ==
    /\ _in_transaction' = FALSE
    /\ args' = NoArgs
    /\ sent' = <<>>
    /\ outcome' = Returned("commit_transaction", None)
    /\ UNCHANGED <<_closed, client, closes, closeCalls, posts>>
    /\ UNCHANGED cursorVars

\* rollback_transaction, lines 134-137
rollback_transaction ==
    /\ _in_transaction' = FALSE
    /\ args' = NoArgs
    /\ sent' = <<>>
    /\ outcome' = Returned("rollback_transaction", None)
    /\ UNCHANGED <<_closed, client, closes, closeCalls, posts>>
    /\ UNCHANGED cursorVars

\* get_server_version, lines 139-142
get_server_version ==
    /\ args' = NoArgs
    /\ sent' = <<>>
    /\ outcome' = Returned("get_server_version", [str |-> "D1-REST-API"])
    /\ UNCHANGED <<_closed, _in_transaction, client, closes, closeCalls, posts>>
    /\ UNCHANGED cursorVars

\* -------------------------------------------------------- specifications
\* A result object as its constructor leaves it (lines 158-161), not yet used.
CursorStart(c) ==
    /\ results = c.results
    /\ meta = c.meta
    /\ success = c.success
    /\ _index = c._index
    /\ call = NoCall
    /\ ret = RetNone
    /\ ncalls = 0
    /\ delivered = <<>>
    /\ posOnly = TRUE
    /\ sumK = 0
    /\ it = NoIter
    /\ yielded = <<>>

\* A connection as __init__ leaves it (lines 28-38), not yet used.
ChannelStart ==
    /\ _closed = FALSE
    /\ _in_transaction = FALSE
    /\ client = "open"
    /\ closes = 0
    /\ closeCalls = 0
    /\ posts = 0
    /\ args = NoArgs
    /\ sent = <<>>
    /\ outcome = Returned("__init__", None)

\* One result object over any row list, and the calls made on it.
CursorInit ==
    /\ \E rs \in RowLists : CursorStart(NewResult(rs, EmptyMeta, TRUE))
    /\ ChannelStart

CursorNext ==
    \/ fetchone
    \/ \E size \in Sizes : fetchmany(size)
    \/ fetchall
    \/ iter
    \/ iterNext

CursorSpec == CursorInit /\ [][CursorNext]_vars

\* One result object, fetched from and read by index.
AccessNext ==
    \/ fetchone
    \/ \E size \in Sizes : fetchmany(size)
    \/ fetchall
    \/ \E index \in Indexes : getitem(index)

AccessSpec == CursorInit /\ [][AccessNext]_vars

\* One connection, and the calls made on it.
Init ==
    /\ CursorStart(NewResult(<<>>, EmptyMeta, TRUE))
    /\ ChannelStart

Next ==
    \/ close
    \/ closed
    \/ \E q \in Queries, p \in Parameters, resp \in Responses : execute(q, p, resp)
    \/ \E q \in Queries, in \in ManyInputs : execute_many(q, in[1], in[2])
    \/ begin_transaction
    \/ commit_transaction
    \/ rollback_transaction
    \/ get_server_version

Spec == Init /\ [][Next]_vars

\* ------------------------------------------------------------- properties
\* A step that is one fetch call, and the call it is.
FetchStep == ncalls' = ncalls + 1
ClosedError == RuntimeError("Connection is closed", NoDetail)

\* C1: in every reachable state of a cursor driven by fetchone, fetchmany
\* (any size, or none) and fetchall, 0 <= position <= len(rows).
PositionInRange == 0 <= _index /\ _index <= Len(results)

\* C2: fetchmany(size) with an integer size <= 0 returns an empty list,
\* raises nothing and leaves the position where it was.
NonPositiveFetchmanyIsNoop ==
    [][(FetchStep /\ call'.name = "fetchmany" /\ ~call'.size.none /\ call'.size.int <= 0)
          => (ret' = RetList(<<>>) /\ _index' = _index)]_vars

\* C3: every fetch call advances the position by exactly the number of rows
\* it returns, so the position never decreases.
FetchAdvancesByReturned ==
    [][FetchStep => (_index' = _index + Len(ret'.rows) /\ _index' >= _index)]_vars

\* C4: on a fresh cursor, fetchmany calls with positive sizes that sum to
\* len(rows) return slices whose concatenation is the row list, in order,
\* and leave position = len(rows).
PositiveFetchmanyCoversRows ==
    (posOnly /\ sumK = Len(results)) => (delivered = results /\ _index = Len(results))

PositiveFetchmanyCoversRowsWitness ==
    /\ posOnly /\ ncalls >= 2 /\ sumK = Len(results)
    /\ Len(results) = 3 /\ results[1] # results[2]
    /\ delivered = results /\ _index = 3

\* C5: fetchall returns exactly the rows at indexes position..len(rows)-1,
\* in order, and sets the position to len(rows): all of the rows right after
\* construction, none on an exhausted cursor.
FetchallReturnsRemaining ==
    [][(FetchStep /\ call'.name = "fetchall")
          => /\ ret'.kind = "list"
             /\ Len(ret'.rows) = Len(results) - _index
             /\ \A i \in 1..Len(ret'.rows) : ret'.rows[i] = results[_index + i]
             /\ _index' = Len(results)
             /\ (ncalls = 0 => ret'.rows = results)
             /\ (_index = Len(results) => ret'.rows = <<>>)]_vars

\* C6: in every reachable cursor state fetchone returns the row at index
\* position and advances the position by one when position < len(rows), and
\* returns None without moving when position = len(rows).
FetchoneReturnsRowAtPosition ==
    [][(FetchStep /\ call'.name = "fetchone")
          => IF _index < Len(results)
             THEN /\ ret'.kind = "row"
                  /\ _index >= 0
                  /\ ret'.rows = <<results[_index + 1]>>
                  /\ _index' = _index + 1
             ELSE /\ ret' = RetNone
                  /\ _index' = _index]_vars

\* C7: an iteration yields the stored rows from index 0, in order and all of
\* them, whatever was fetched before, and neither starting nor running it
\* changes the position.
IterationYieldsAllRows ==
    /\ [](it.state # "none" =>
             /\ it.pos <= Len(results)
             /\ yielded = SubSeq(results, 1, it.pos))
    /\ [](it.state = "done" => yielded = results)
    /\ [][it' # it => _index' = _index]_vars

IterationYieldsAllRowsWitness ==
    /\ it.state = "done" /\ yielded = results
    /\ Len(results) = 3 /\ results[1] # results[2]
    /\ ncalls >= 2 /\ _index = 2 /\ Len(delivered) = 2

\* C8: once the connection is closed no call posts a request: execute raises
\* the closed-connection error without posting and execute_many posts nothing.
NoPostAfterClose ==
    [][_closed => /\ posts' = posts
                  /\ sent' = <<>>
                  /\ (outcome'.op = "execute" => outcome' = Raised("execute", ClosedError))]_vars

NoPostAfterCloseWitness ==
    /\ _closed /\ posts = 2
    /\ outcome = Raised("execute", ClosedError)

\* C9: after close(), every call other than close() and reading closed
\* raises the closed-connection error.
EveryCallFailsAfterClose ==
    [][(_closed /\ outcome'.op \notin {"close", "closed"})
          => (outcome'.raised /\ outcome'.exc = ClosedError)]_vars

\* C10: closed starts false and, once true, stays true; close() never raises,
\* and the httpx client is closed exactly once however often close() is called.
ClosedIsMonotonic ==
    /\ [](closeCalls = 0 => ~_closed)
    /\ [](closeCalls > 0 => _closed)
    /\ [](closes = (IF _closed THEN 1 ELSE 0))
    /\ []((client = "closed") <=> _closed)
    /\ [](outcome.op = "close" => ~outcome.raised)
    /\ [][_closed => _closed']_vars

ClosedIsMonotonicWitness ==
    /\ closeCalls = 2 /\ _closed /\ closes = 1
    /\ outcome = Returned("close", None)
    /\ posts > 0

\* The requests a call on an open connection posted correctly: one per
\* parameter set, for the first n sets, in their order.
PayloadsFor(query, parameters_list, n) ==
    [i \in 1..n |-> Payload(query, parameters_list[i])]
CursorsFor(resps, n) == [i \in 1..n |-> HandleResponse(resps[i]).cursor]
FailingCalls(resps) == {i \in 1..Len(resps) : HandleResponse(resps[i]).raised}
FirstOf(S) == CHOOSE k \in S : \A j \in S : k <= j

\* C11: execute_many on an open connection posts one request per parameter
\* set, in input order; when the k-th request is the first to fail, exactly
\* the requests for sets 1..k were posted, k-1 result objects were produced
\* and the failure is raised; when none fails it returns one result object
\* per set, the i-th being the result of the i-th request.
ExecuteManyInOrder ==
    (outcome.op = "execute_many" /\ ~_closed) =>
        LET ps == args.parameters_list
            failing == FailingCalls(args.resps)
        IN  IF failing = {}
            THEN /\ ~outcome.raised
                 /\ sent = PayloadsFor(args.query, ps, Len(ps))
                 /\ outcome.value = [list |-> CursorsFor(args.resps, Len(ps))]
            ELSE LET k == FirstOf(failing)
                 IN  /\ outcome.raised
                     /\ outcome.exc = HandleResponse(args.resps[k]).exc
                     /\ sent = PayloadsFor(args.query, ps, k)
                     /\ Len(outcome.produced) = k - 1
                     /\ outcome.produced = CursorsFor(args.resps, k - 1)

ExecuteManyInOrderWitness ==
    /\ outcome.op = "execute_many" /\ ~_closed
    /\ Len(args.parameters_list) = 2
    /\ args.parameters_list[1] # args.parameters_list[2]
    /\ outcome.raised
    /\ Len(sent) = 2 /\ sent[1] # sent[2]
    /\ Len(outcome.produced) = 1

\* The most recent call was execute on an open connection, and the request
\* it posted was answered with status 2xx and a JSON body.
ExecutedOpen == outcome.op = "execute" /\ ~_closed
Answered2xx ==
    args.resp.kind = "response" /\ 200 <= args.resp.status /\ args.resp.status < 300
AnsweredEnvelope == Answered2xx /\ args.resp.body.json
EnvelopeSuccessIs(b) ==
    /\ AnsweredEnvelope
    /\ "success" \in DOMAIN args.resp.body.data
    /\ args.resp.body.data.success = b

\* The error kinds of the specification, as the code signals them.
ErrorKind(e) ==
    IF e.type = "JSONDecodeError" THEN "ProtocolError"
    ELSE IF e.msg \in {"HTTP request failed: ", "HTTP error "} THEN "TransportError"
    ELSE IF e.msg \in {"D1 API error: ", "D1 API request failed"} THEN "RemoteQueryError"
    ELSE IF e.msg = "Connection is closed" THEN "ClosedChannelError"
    ELSE "other"

\* C12: when the envelope of a 2xx answer has success = false, execute
\* returns no result object and raises the remote-query error, with the
\* message of the first entry of errors, or the generic request-failed
\* message when errors is empty or absent.
RemoteFailureRaises ==
    (ExecutedOpen /\ EnvelopeSuccessIs(FALSE)) =>
        LET data == args.resp.body.data
            errors == IF "errors" \in DOMAIN data THEN data.errors ELSE <<>>
        IN  /\ outcome.raised
            /\ "value" \notin DOMAIN outcome
            /\ ErrorKind(outcome.exc) = "RemoteQueryError"
            /\ IF Len(errors) > 0
               THEN /\ outcome.exc.msg = "D1 API error: "
                    /\ "message" \in DOMAIN errors[1]
                          => outcome.exc.detail = [str |-> errors[1].message]
               ELSE outcome.exc = RuntimeError("D1 API request failed", NoDetail)

RemoteFailureRaisesWitness ==
    /\ ExecutedOpen /\ EnvelopeSuccessIs(FALSE)
    /\ "errors" \in DOMAIN args.resp.body.data
    /\ Len(args.resp.body.data.errors) = 2
    /\ args.resp.body.data.errors[1].message = "syntax error"
    /\ outcome.raised
    /\ outcome.exc.detail = [str |-> "syntax error"]

\* C13: when the envelope has success = true, execute returns a new result
\* object at position 0, built from the results, meta and success (default
\* true) of the first element of result, or with no rows, empty meta,
\* success true, rowcount 0 and no lastrowid when result is empty.
SuccessBuildsCursor ==
    (ExecutedOpen /\ EnvelopeSuccessIs(TRUE)) =>
        /\ ~outcome.raised
        /\ "cursor" \in DOMAIN outcome.value
        /\ LET data == args.resp.body.data
               c == outcome.value.cursor
           IN  /\ c._index = 0
               /\ IF "result" \in DOMAIN data /\ Len(data.result) > 0
                  THEN LET b == data.result[1]
                       IN  /\ c.results = (IF "results" \in DOMAIN b THEN b.results ELSE <<>>)
                           /\ c.meta = (IF "meta" \in DOMAIN b THEN b.meta ELSE EmptyMeta)
                           /\ c.success = (IF "success" \in DOMAIN b THEN b.success ELSE TRUE)
                  ELSE /\ c.results = <<>>
                       /\ c.meta = EmptyMeta
                       /\ c.success = TRUE
                       /\ rowcount(c) = 0
                       /\ lastrowid(c) = None

SuccessBuildsCursorWitness ==
    /\ ExecutedOpen /\ EnvelopeSuccessIs(TRUE)
    /\ "result" \in DOMAIN args.resp.body.data
    /\ Len(args.resp.body.data.result) = 2
    /\ ~outcome.raised
    /\ outcome.value.cursor.results = <<[id |-> 1]>>
    /\ rowcount(outcome.value.cursor) = 1

\* C14: on an open connection the kind of execute's failure is set by the
\* earliest failing stage: no answer gives the transport error; a non-2xx
\* status gives the transport error whatever the body holds; a 2xx answer
\* that is not JSON gives the protocol error; an envelope with success = false
\* gives the remote-query error.
FailureKindByStage ==
    ExecutedOpen =>
        LET r == args.resp
        IN  /\ r.kind = "RequestError"
                  => (outcome.raised /\ ErrorKind(outcome.exc) = "TransportError")
            /\ (r.kind = "response" /\ ~Answered2xx)
                  => /\ outcome.raised
                     /\ ErrorKind(outcome.exc) = "TransportError"
                     /\ outcome.exc.detail = [status |-> r.status, text |-> r.body]
            /\ (Answered2xx /\ ~r.body.json)
                  => (outcome.raised /\ ErrorKind(outcome.exc) = "ProtocolError")
            /\ EnvelopeSuccessIs(FALSE)
                  => (outcome.raised /\ ErrorKind(outcome.exc) = "RemoteQueryError")

FailureKindByStageWitness ==
    /\ ExecutedOpen
    /\ args.resp.kind = "response" /\ args.resp.status = 500
    /\ args.resp.body.json
    /\ args.resp.body.data.success = FALSE
    /\ outcome.raised
    /\ ErrorKind(outcome.exc) = "TransportError"

\* C15: each execute on an open connection posts exactly one request, never
\* a second one, and ends either with one result object or with an exception,
\* never with both.
ExecuteOneCallOneOutcome ==
    ExecutedOpen =>
        /\ Len(sent) = 1
        /\ outcome.raised <=> "exc" \in DOMAIN outcome
        /\ outcome.raised <=> "value" \notin DOMAIN outcome
        /\ ~outcome.raised => DOMAIN outcome.value = {"cursor"}

ExecuteOneCallOneOutcomeWitness ==
    /\ ExecutedOpen /\ posts = 2 /\ Len(sent) = 1
    /\ args.resp.kind = "RequestError"
    /\ outcome.raised

\* C16: begin_transaction sets the transaction flag, commit_transaction and
\* rollback_transaction clear it, whatever it was; they post nothing and leave
\* closed alone; and what execute posts and returns is fixed by its arguments
\* and the transport's answer, not by the flag.
TransactionOps == {"begin_transaction", "commit_transaction", "rollback_transaction"}
TransactionCallsOnlySetFlag ==
    /\ [][/\ outcome'.op = "begin_transaction" => _in_transaction' = TRUE
          /\ outcome'.op \in {"commit_transaction", "rollback_transaction"}
                => _in_transaction' = FALSE
          /\ outcome'.op \in TransactionOps
                => /\ ~outcome'.raised
                   /\ sent' = <<>> /\ posts' = posts
                   /\ _closed' = _closed /\ client' = client /\ closes' = closes]_vars
    /\ [](ExecutedOpen =>
             LET r == HandleResponse(args.resp)
             IN  /\ sent = <<Payload(args.query, args.parameters)>>
                 /\ outcome = (IF r.raised THEN Raised("execute", r.exc)
                               ELSE Returned("execute", [cursor |-> r.cursor])))

TransactionCallsOnlySetFlagWitness ==
    /\ ExecutedOpen /\ _in_transaction
    /\ ~outcome.raised /\ Len(sent) = 1

\* C17: the request body of execute holds params exactly when parameters is
\* a non-empty sequence, with the values in the caller's order; with no
\* parameters, or an empty sequence, the body has no params field.
ParamsSentIffNonEmpty ==
    ExecutedOpen =>
        /\ Len(sent) = 1
        /\ sent[1].sql = args.query
        /\ IF ~args.parameters.none /\ Len(args.parameters.seq) > 0
           THEN /\ DOMAIN sent[1] = {"sql", "params"}
                /\ sent[1].params = args.parameters.seq
           ELSE DOMAIN sent[1] = {"sql"}

ParamsSentIffNonEmptyWitness ==
    /\ ExecutedOpen
    /\ args.parameters = Params(<<2, 1>>)
    /\ sent = <<[sql |-> args.query, params |-> <<2, 1>>]>>

\* C18 (as stated): indexed access(i) returns rows[i] when 0 <= i < len(rows)
\* and fails with IndexError for every other integer i; the result does not
\* depend on the position and the position is left unchanged.
IndexedAccessFromZero ==
    /\ [](call.name = "getitem" =>
             LET i == call.size.int
             IN  IF 0 <= i /\ i < Len(results)
                 THEN ret = RetRow(results[i + 1])
                 ELSE ret = RetRaise("IndexError"))
    /\ [][call'.name = "getitem" => _index' = _index]_vars

\* C18 (amended): indexed access(i) returns rows[i] when 0 <= i < len(rows),
\* returns rows[len(rows) + i] when -len(rows) <= i < 0, and fails with
\* IndexError for every other integer i; the result does not depend on the
\* position and the position is left unchanged.
IndexedAccessPython ==
    /\ [](call.name = "getitem" =>
             LET i == call.size.int
                 n == Len(results)
             IN  IF 0 <= i /\ i < n
                 THEN ret = RetRow(results[i + 1])
                 ELSE IF 0 - n <= i /\ i < 0
                 THEN ret = RetRow(results[n + i + 1])
                 ELSE ret = RetRaise("IndexError"))
    /\ [][call'.name = "getitem" => _index' = _index]_vars

IndexedAccessPythonWitness ==
    /\ call.name = "getitem" /\ call.size.int = -1
    /\ Len(results) = 3 /\ results[1] # results[3]
    /\ _index = 2
    /\ ret = RetRow(results[3])

\* C19: over any sequence of fetch calls on one cursor the rows returned so
\* far, concatenated, are a prefix of the row list (in order, none twice,
\* none skipped), and once position = len(rows) no fetch returns a row.
DeliveredIsPrefixOfRows ==
    /\ [](/\ Len(delivered) <= Len(results)
          /\ delivered = SubSeq(results, 1, Len(delivered)))
    /\ [][(FetchStep /\ _index = Len(results)) => ret'.rows = <<>>]_vars

\* C20: an execute or execute_many that raises leaves closed, the client
\* and the transaction flag as they were, and the next execute on the still
\* open connection posts its request again and succeeds or fails by the
\* answer it gets.
ExecuteOps == {"execute", "execute_many"}
FailedExecuteKeepsChannel ==
    /\ [][(outcome'.op \in ExecuteOps /\ outcome'.raised)
             => /\ _closed' = _closed
                /\ client' = client
                /\ closes' = closes
                /\ _in_transaction' = _in_transaction]_vars
    /\ [][(outcome.op \in ExecuteOps /\ outcome.raised /\ ~_closed /\ outcome'.op = "execute")
             => /\ ~_closed'
                /\ Len(sent') = 1
                /\ posts' = posts + 1
                /\ outcome'.raised = HandleResponse(args'.resp).raised]_vars

FailedExecuteKeepsChannelWitness ==
    /\ outcome.op = "execute_many" /\ outcome.raised
    /\ Len(outcome.produced) = 1
    /\ ~_closed /\ client = "open" /\ _in_transaction

====
